---- MODULE Spec2Model ----
(***************************************************************************)
(* Model of the my_honeywell integration: the AIOSomeComfort client        *)
(* (session state, login rate limit, request retry loop) and the           *)
(* MyHoneywellCoordinator poll cycle (_async_update_data).                 *)
(*                                                                         *)
(* One asyncio task runs the poll cycle.  The task is suspended only at    *)
(* the awaits of the code (the login POST, the verification GET, the API   *)
(* request, the backoff sleep); the code between two awaits runs as one    *)
(* step.  Two loop heads (the device loop of the coordinator, the attempt  *)
(* loop of the retry wrapper) are steps of their own.  The remote service  *)
(* is the environment: every response is a nondeterministic choice.        *)
(* Time is counted in minutes; the Tick action advances the clock by       *)
(* TickStep minutes while the task is suspended.                           *)
(* The variables marked "history" record what happened; no step reads      *)
(* them to decide what the program does.                                   *)
(***************************************************************************)
EXTENDS Integers, Sequences, FiniteSets, TLC

\* ---------------------------------------------------------------- constants
MIN_LOGIN_TIME == 10
MAX_LOGIN_ATTEMPTS == 3
DEFAULT_RETRY_COUNT == 3
RETRY_BACKOFF_BASE == 2
LocationPages == 4
RETRY_ATTEMPTS == 3
MaxSettings == 3
max_consecutive_errors == 5

\* ------------------------------------------------------------------- bounds
MaxTime == 11
TickStep == 5
MaxErrors == 6
NumDevices == 2

Devices == 1..NumDevices

\* The error kinds.  ClientError is aiohttp.ClientError, which is not a
\* SomeComfortError; every other kind is a subclass of SomeComfortError.
SomeComfortErrors ==
    {"SomeComfortError", "ConnectionError", "AuthError", "APIError",
     "APIRateLimited", "ServiceUnavailable", "UnexpectedResponse",
     "UnauthorizedError"}

Statuses == {200, 401, 403, 500, 404}
ContentTypes == {"application/json", "application/octet-stream", "text/html"}
Cookies == {"valid", "empty", "missing"}

\* The outcome of a transport call as the steps of ClassifySpec record it.
NoOutcome ==
    [kind |-> "none", status |-> 0, ctype |-> "", redirected |-> FALSE]
RaisedOutcome ==
    [kind |-> "exception", status |-> 0, ctype |-> "", redirected |-> FALSE]
ResponseOutcome(status, ctype, redirected) ==
    [kind |-> "response", status |-> status, ctype |-> ctype,
     redirected |-> redirected]

\* The statuses ClassifySpec draws from: those above and the rest of the
\* statuses _request_json names, with a 2xx other than 200.
ClassifyStatuses == Statuses \cup {204, 502, 503}

VARIABLES
    now,                \* the wall clock, in minutes
    is_authenticated,   \* AIOSomeComfort._is_authenticated
    null_cookie_count,  \* AIOSomeComfort._null_cookie_count
    next_login,         \* AIOSomeComfort._next_login
    consecutive_errors, \* MyHoneywellCoordinator._consecutive_errors
    data,               \* the coordinator's stored snapshot (<<>>: None or {})
    pc,                 \* where the poll task is suspended
    login_ctx,          \* the call site of the login() in progress
    idx,                \* the device loop's position (1..NumDevices+1)
    device_data,        \* the cycle's device_data so far: available flag per device
    attempt,            \* the retry loop's attempt (0-based)
    last_error,         \* the retry loop's last_error ("None" if unset)
    backoff,            \* the seconds of the sleep in progress
    result,             \* how the cycle ended: none, fresh, stale, UpdateFailed, raised
    returned,           \* the mapping the cycle returned
    cycle_exc,          \* the exception the cycle's outer try caught ("None" if none)
    login_gated,        \* history: now < next_login held when the last login() was called
    login_calls,        \* history: transport calls issued by the last login()
    login_result,       \* history: none, pending, ok, or the error the last login() raised
    null_run,           \* history: consecutive login() calls that ended with an empty cookie
    null_at,            \* history: the time the last of them failed
    login_in_window,    \* history: the last login() was called within 10 minutes of null_at, after 3 of them
    req_entry,          \* history: _request_json_with_retry has just been entered
    req_calls,          \* history: transport calls issued by the last request
    relogins,           \* history: re-logins after a 401/403 that succeeded, in the last request
    errors_at_start,    \* history: consecutive_errors when the cycle in progress began
    invoked,            \* history: the devices whose refresh() the cycle has called, in order
    failed,             \* history: per device of the cycle, whether its refresh() raised
    refresh_exc,        \* history: the error the last refresh() raised ("None" if it returned)
    scen,               \* history: how far the cycle's responses match SU, SU, OK for device 1, OK for device 2
    last_unauth,        \* history: the most recent transport call of the session returned status 401 or 403
    login_cookie,       \* history: the step that led here received the verification response, both statuses 200, with this auth cookie
    login_status,       \* history: the status of the login response (POST or verification GET) the step that led here received; 0 if it received none
    rl_run,             \* history: the cycles that surfaced APIRateLimited, one after the other, just before the cycle in progress
    login_entry,        \* history: <<is_authenticated, null_cookie_count, next_login>> as they were when the poll task's login() was called, kept from the call until the step after the login() ended; <<>> otherwise
    req_class,          \* history: what _request_json made of the transport call the step that led here completed: ok, the error raised, or none
    resp_in,            \* history: the outcome of that transport call (a response's status, content type and redirect history, or an exception), where the steps record it
    reauth,             \* history: how far the request in progress matches 401, re-login, 200
    page,               \* _get_locations: the page being fetched (0: no discovery in progress)
    found,              \* _get_locations: json_responses is not empty
    cmd_pc,             \* where the command task is suspended
    cmd_login_ctx,      \* the call site of the command task's login() in progress
    cmd_attempt,        \* the attempt of the command's retry loop
    cmd_last_error,     \* the last_error of the command's retry loop
    cmd_calls,          \* history: transport calls issued for the command's submission
    cmd_result,         \* how set_thermostat_settings ended: None, ok, or the error raised
    op_pc,              \* the command operation of the climate entity: none, running (inside a setter of the device), sleep, done
    op_settings,        \* the number of settings the operation submits in an attempt
    op_todo,            \* the settings of the attempt in progress not yet submitted
    op_attempt,         \* the operation's attempt (0-based)
    op_exc,             \* the exception the operation raised to its caller ("None" if none)
    op_failed,          \* history: the attempts of the operation that failed
    op_slept,           \* history: the seconds of the operation's sleeps, in order
    op_refreshes,       \* history: the coordinator refreshes the operation requested
    cmd_reply           \* history: the 200 response to the submission: none, accepted (its body has success = 1), rejected (its body has not, or it has no body)

vars == <<now, is_authenticated, null_cookie_count, next_login, consecutive_errors,
          data, pc, login_ctx, idx, device_data, attempt, last_error, backoff,
          result, returned, cycle_exc, login_gated, login_calls, login_result,
          null_run, null_at, login_in_window, req_entry, req_calls, relogins,
          errors_at_start, invoked, failed, refresh_exc, scen, last_unauth,
          login_cookie, login_status, login_entry, rl_run, req_class, resp_in,
          reauth,
          page, found,
          cmd_pc, cmd_login_ctx, cmd_attempt, cmd_last_error, cmd_calls,
          cmd_result, cmd_reply, op_pc, op_settings, op_todo, op_attempt,
          op_exc, op_failed, op_slept, op_refreshes>>

\* The current state as a record; the operators below map a state to the state
\* at the next await (or loop head) of the task.  The field login_cookie
\* describes the response a step receives: it starts cleared, and the step
\* that receives the verification response sets it.
St ==
    [now |-> now, is_authenticated |-> is_authenticated,
     null_cookie_count |-> null_cookie_count, next_login |-> next_login,
     consecutive_errors |-> consecutive_errors, data |-> data, pc |-> pc,
     login_ctx |-> login_ctx, idx |-> idx, device_data |-> device_data,
     attempt |-> attempt, last_error |-> last_error, backoff |-> backoff,
     result |-> result, returned |-> returned, cycle_exc |-> cycle_exc,
     login_gated |-> login_gated, login_calls |-> login_calls,
     login_result |-> login_result, null_run |-> null_run, null_at |-> null_at,
     login_in_window |-> login_in_window, req_entry |-> req_entry,
     req_calls |-> req_calls, relogins |-> relogins,
     errors_at_start |-> errors_at_start, invoked |-> invoked, failed |-> failed,
     refresh_exc |-> refresh_exc, scen |-> scen, last_unauth |-> last_unauth,
     login_cookie |-> "none", login_status |-> 0, req_class |-> "none",
     login_entry |-> IF login_ctx = "none" THEN <<>> ELSE login_entry,
     rl_run |-> rl_run,
     reauth |-> reauth, page |-> page,
     found |-> found, reply |-> cmd_reply, op_pc |-> op_pc,
     op_settings |-> op_settings, op_todo |-> op_todo,
     op_attempt |-> op_attempt, op_exc |-> op_exc, op_failed |-> op_failed,
     op_slept |-> op_slept, op_refreshes |-> op_refreshes, task |-> "poll"]

Apply(s) ==
    \E t \in {s} :
        /\ now' = t.now
        /\ is_authenticated' = t.is_authenticated
        /\ null_cookie_count' = t.null_cookie_count
        /\ next_login' = t.next_login
        /\ consecutive_errors' = t.consecutive_errors
        /\ data' = t.data
        /\ pc' = t.pc
        /\ login_ctx' = t.login_ctx
        /\ idx' = t.idx
        /\ device_data' = t.device_data
        /\ attempt' = t.attempt
        /\ last_error' = t.last_error
        /\ backoff' = t.backoff
        /\ result' = t.result
        /\ returned' = t.returned
        /\ cycle_exc' = t.cycle_exc
        /\ login_gated' = t.login_gated
        /\ login_calls' = t.login_calls
        /\ login_result' = t.login_result
        /\ null_run' = t.null_run
        /\ null_at' = t.null_at
        /\ login_in_window' = t.login_in_window
        /\ req_entry' = t.req_entry
        /\ req_calls' = t.req_calls
        /\ relogins' = t.relogins
        /\ errors_at_start' = t.errors_at_start
        /\ invoked' = t.invoked
        /\ failed' = t.failed
        /\ refresh_exc' = t.refresh_exc
        /\ scen' = t.scen
        /\ last_unauth' = t.last_unauth
        /\ login_cookie' = t.login_cookie
        /\ login_status' = t.login_status
        /\ login_entry' = t.login_entry
        /\ rl_run' = t.rl_run
        /\ req_class' = t.req_class
        /\ reauth' = t.reauth
        /\ page' = t.page
        /\ found' = t.found
        /\ UNCHANGED <<resp_in, cmd_pc, cmd_login_ctx, cmd_attempt,
                       cmd_last_error, cmd_calls, cmd_result, cmd_reply,
                       op_pc, op_settings, op_todo, op_attempt, op_exc,
                       op_failed, op_slept, op_refreshes>>

\* The state as the command task sees it: the session's fields are shared,
\* the position and the locals of the retry loop are the command task's own.
CmdSt ==
    [St EXCEPT !.task = "cmd", !.pc = cmd_pc, !.login_ctx = cmd_login_ctx,
               !.attempt = cmd_attempt, !.last_error = cmd_last_error,
               !.req_calls = cmd_calls, !.refresh_exc = cmd_result]

\* A step of the command task: the session's fields and the command task's
\* own are assigned, the poll task's and the records of its cycle are left
\* alone.
ApplyCmd(s) ==
    \E t \in {s} :
        /\ is_authenticated' = t.is_authenticated
        /\ null_cookie_count' = t.null_cookie_count
        /\ next_login' = t.next_login
        /\ last_unauth' = t.last_unauth
        /\ login_cookie' = t.login_cookie
        /\ cmd_pc' = t.pc
        /\ cmd_login_ctx' = t.login_ctx
        /\ cmd_attempt' = t.attempt
        /\ cmd_last_error' = t.last_error
        /\ cmd_calls' = t.req_calls
        /\ cmd_result' = t.refresh_exc
        /\ cmd_reply' = t.reply
        /\ op_pc' = t.op_pc
        /\ op_settings' = t.op_settings
        /\ op_todo' = t.op_todo
        /\ op_attempt' = t.op_attempt
        /\ op_exc' = t.op_exc
        /\ op_failed' = t.op_failed
        /\ op_slept' = t.op_slept
        /\ op_refreshes' = t.op_refreshes
        /\ UNCHANGED <<login_status, login_entry, rl_run, req_class, resp_in, now,
                       consecutive_errors, data, pc, login_ctx, idx,
                       device_data, attempt, last_error, backoff, result,
                       returned, cycle_exc, login_gated, login_calls,
                       login_result, null_run, null_at, login_in_window,
                       req_entry, req_calls,
                       relogins, errors_at_start, invoked, failed, refresh_exc,
                       scen, reauth, page, found>>

\* The assignments of a step of the poll task that keeps no record of the
\* cycle: the session's fields and the poll task's position and locals.
PollAssign(s) ==
    \E t \in {s} :
        /\ is_authenticated' = t.is_authenticated
        /\ null_cookie_count' = t.null_cookie_count
        /\ next_login' = t.next_login
        /\ consecutive_errors' = t.consecutive_errors
        /\ pc' = t.pc
        /\ login_ctx' = t.login_ctx
        /\ idx' = t.idx
        /\ device_data' = t.device_data
        /\ attempt' = t.attempt
        /\ last_error' = t.last_error
        /\ result' = t.result
        /\ returned' = t.returned
        /\ last_unauth' = t.last_unauth
        /\ login_cookie' = t.login_cookie
        /\ UNCHANGED <<login_status, login_entry, rl_run, now, data, backoff,
                       cycle_exc,
                       login_gated, login_calls, login_result, null_run,
                       null_at, login_in_window, req_entry, req_calls,
                       relogins, errors_at_start, invoked, failed,
                       refresh_exc, scen, reauth, page, found, cmd_pc,
                       cmd_login_ctx, cmd_attempt, cmd_last_error, cmd_calls,
                       cmd_result, cmd_reply, op_pc, op_settings, op_todo,
                       op_attempt, op_exc, op_failed, op_slept, op_refreshes>>

\* A step of the poll task next to the command task: the records kept about
\* the cycle for the properties of the poll task alone are not advanced.
ApplyPoll(s) ==
    PollAssign(s) /\ UNCHANGED <<req_class, resp_in>>

\* A step of the poll task that completes the transport call of an API
\* request, with the call's outcome and _request_json's verdict recorded.
ApplyObserved(s, outcome) ==
    /\ PollAssign(s)
    /\ req_class' = s.req_class
    /\ resp_in' = outcome

\* ----------------------------------------------------------- the client

\* _request_json's classification of a response: "ok" or the error raised.
Classify(status, ctype, redirected) ==
    IF status = 200 /\ ctype \in {"application/json", "application/octet-stream"}
    THEN "ok"
    ELSE IF status = 401 THEN "UnauthorizedError"
    ELSE IF status = 403 THEN "UnauthorizedError"
    ELSE IF status \in {500, 502, 503} \/ redirected THEN "ServiceUnavailable"
    ELSE "UnexpectedResponse"

\* Faulty variant of SetNullCount: the threshold is compared with > instead of >=.
SetNullCount_OffByOne(s) ==
    LET c == s.null_cookie_count + 1 IN
    [s EXCEPT !.null_cookie_count = c,
              !.is_authenticated = FALSE,
              !.next_login = IF c > MAX_LOGIN_ATTEMPTS
                             THEN s.now + MIN_LOGIN_TIME ELSE @]

\* Faulty variant of SetNullCount: arming the cooldown starts the count afresh.
SetNullCount_ResetOnArm(s) ==
    LET c == s.null_cookie_count + 1 IN
    [s EXCEPT !.null_cookie_count = IF c >= MAX_LOGIN_ATTEMPTS THEN 0 ELSE c,
              !.is_authenticated = FALSE,
              !.next_login = IF c >= MAX_LOGIN_ATTEMPTS
                             THEN s.now + MIN_LOGIN_TIME ELSE @]

\* _set_null_count
SetNullCount(s) ==
    LET c == s.null_cookie_count + 1 IN
    [s EXCEPT !.null_cookie_count = c,
              !.is_authenticated = FALSE,
              !.next_login = IF c >= MAX_LOGIN_ATTEMPTS
                             THEN s.now + MIN_LOGIN_TIME ELSE @]

\* ------------------------------------------------------ the coordinator

\* The cycle returns device_data: the counter is reset.
ReturnFresh(s) ==
    [s EXCEPT !.consecutive_errors = 0, !.result = "fresh",
              !.returned = s.device_data, !.pc = "done"]

\* Faulty variant of ReturnStale: an empty mapping is returned whatever is stored.
ReturnStale_Empty(s) ==
    [s EXCEPT !.result = "stale", !.returned = <<>>, !.pc = "done"]

\* "return self.data if self.data else {}"
ReturnStale(s) ==
    [s EXCEPT !.result = "stale", !.returned = s.data, !.pc = "done"]

RaiseUpdateFailed(s) ==
    [s EXCEPT !.result = "UpdateFailed", !.pc = "done"]

\* Faulty variant of TransientExcept: the threshold is compared with > instead of >=.
TransientExcept_Strict(s) ==
    LET s1 == [s EXCEPT !.consecutive_errors = @ + 1] IN
    IF s1.consecutive_errors > max_consecutive_errors
    THEN RaiseUpdateFailed(s1)
    ELSE ReturnStale(s1)

\* The threshold branch shared by the ServiceUnavailable and ConnectionError handlers.
TransientExcept(s) ==
    LET s1 == [s EXCEPT !.consecutive_errors = @ + 1] IN
    IF s1.consecutive_errors >= max_consecutive_errors
    THEN RaiseUpdateFailed(s1)
    ELSE ReturnStale(s1)

\* Faulty variant of RateLimitedExcept: the cycle is skipped without counting.
RateLimitedExcept_NotCounted(s) ==
    ReturnStale(s)

\* Faulty variant of RateLimitedExcept: the handler checks the threshold like its neighbours.
RateLimitedExcept_Threshold(s) ==
    LET s1 == [s EXCEPT !.consecutive_errors = @ + 1] IN
    IF s1.consecutive_errors >= max_consecutive_errors
    THEN RaiseUpdateFailed(s1)
    ELSE ReturnStale(s1)

\* The APIRateLimited handler.
RateLimitedExcept(s) ==
    ReturnStale([s EXCEPT !.consecutive_errors = @ + 1])

\* Faulty variant of UnexpectedExcept: the error is suppressed below the threshold like an outage.
UnexpectedExcept_Suppressed(s) ==
    TransientExcept(s)

\* The "except Exception" handler.
UnexpectedExcept(s) ==
    RaiseUpdateFailed([s EXCEPT !.consecutive_errors = @ + 1])

RECURSIVE LoginCall(_, _)
RECURSIVE UpdateBody(_)

\* discover() returns to async_setup_entry: with no location there is no
\* device and the setup fails (ConfigEntryNotReady), else the entry is loaded
\* and the coordinator is created.
DiscoverEnd(s) ==
    [s EXCEPT !.page = 0, !.found = FALSE, !.consecutive_errors = 0,
              !.login_ctx = "none", !.rl_run = 0,
              !.pc = IF s.found THEN "idle" ELSE "unloaded"]

\* _get_locations: the head of the page loop, up to the page's POST.
NextPage(s) ==
    IF s.page > LocationPages
    THEN DiscoverEnd(s)
    ELSE IF s.is_authenticated
    THEN [s EXCEPT !.pc = "page"]
    ELSE LoginCall(s, "page")

\* The except clauses of _async_update_data's outer try, for exception e.
CycleExcept(s0, e) ==
    LET s == [s0 EXCEPT !.cycle_exc = e] IN
    CASE e = "UnauthorizedError" -> LoginCall(s, "recover")
      [] e = "APIRateLimited" -> RateLimitedExcept(s)
      [] e \in {"ServiceUnavailable", "ConnectionError"} -> TransientExcept(s)
      [] OTHER -> UnexpectedExcept(s)

\* Faulty variant of RefreshRaise: no inner try, the error reaches the outer handlers.
RefreshRaise_Abort(s, e) ==
    CycleExcept([s EXCEPT !.failed = Append(@, TRUE), !.refresh_exc = e], e)

\* The device loop's body after device.refresh() of device s.idx raised e:
\* the inner try catches SomeComfortError only.
RefreshRaise(s, e) ==
    LET s1 == [s EXCEPT !.failed = Append(@, TRUE), !.refresh_exc = e] IN
    IF e \in SomeComfortErrors
    THEN [s1 EXCEPT !.device_data = Append(@, FALSE), !.idx = @ + 1,
                    !.pc = "dev_loop"]
    ELSE CycleExcept(s1, e)

\* Faulty variant of RefreshReturn: the entry is also written into the stored snapshot.
RefreshReturn_Publish(s, alive) ==
    [s EXCEPT !.failed = Append(@, FALSE), !.refresh_exc = "None",
              !.device_data = Append(@, alive), !.idx = @ + 1,
              !.data = Append(s.device_data, alive),
              !.pc = "dev_loop"]

\* The device loop's body after device.refresh() returned; alive is the
\* device's is_alive, which refresh() takes from the payload.
RefreshReturn(s, alive) ==
    [s EXCEPT !.failed = Append(@, FALSE), !.refresh_exc = "None",
              !.device_data = Append(@, alive), !.idx = @ + 1,
              !.pc = "dev_loop"]

\* Faulty variant of StartRequest: attempt and last_error are shared by the requests.
StartRequest_Shared(s) ==
    [s EXCEPT !.pc = "attempt", !.req_entry = TRUE, !.req_calls = 0,
              !.relogins = 0,
              !.refresh_exc = "None",
              !.login_gated = FALSE, !.login_in_window = FALSE,
              !.login_calls = 0, !.login_result = "none",
              !.scen = IF s.idx = 1 THEN "A0" ELSE @]

\* _request_json_with_retry is entered (through get_thermostat_data and
\* _get_json) for device s.idx: its locals are set.
StartRequest(s) ==
    [s EXCEPT !.attempt = 0, !.last_error = "None", !.pc = "attempt",
              !.req_entry = TRUE, !.req_calls = 0,
              !.relogins = 0,
              !.refresh_exc = "None",
              !.login_gated = FALSE, !.login_in_window = FALSE,
              !.login_calls = 0, !.login_result = "none",
              !.scen = IF s.idx = 1 THEN "A0" ELSE @]

\* A command operation of the climate entity: the setters of the attempt
\* returned, so the operation requests a refresh of the coordinator and returns.
ClimateReturn(s) ==
    [s EXCEPT !.op_refreshes = @ + 1, !.op_pc = "done", !.pc = "idle"]

\* A setter of the device submits one setting through
\* set_thermostat_settings, which enters _request_json_with_retry.
DeviceSetter(s) ==
    StartRequest([s EXCEPT !.reply = "none"])

\* The body of an attempt of a command operation: the settings are submitted
\* one after the other, then the refresh is requested.
ClimateSubmit(s) ==
    IF s.op_todo = 0 THEN ClimateReturn(s) ELSE DeviceSetter(s)

\* Faulty variant of ClimateExcept: the error of the last attempt is raised to the caller.
ClimateExcept_RaiseOnLast(s0, e) ==
    LET s == [s0 EXCEPT !.op_failed = @ + 1, !.pc = "idle"] IN
    IF e \in SomeComfortErrors /\ s.op_attempt < RETRY_ATTEMPTS - 1
    THEN [s EXCEPT !.op_slept = Append(@, 2 ^ s.op_attempt), !.op_pc = "sleep"]
    ELSE [s EXCEPT !.op_exc = e, !.op_pc = "done"]

\* A setter of the device raised e inside an attempt of a command operation:
\* a SomeComfortError is caught, and followed by a sleep unless the attempt
\* was the last; any other exception leaves the operation.
ClimateExcept(s0, e) ==
    LET s == [s0 EXCEPT !.op_failed = @ + 1, !.pc = "idle"] IN
    IF e \notin SomeComfortErrors
    THEN [s EXCEPT !.op_exc = e, !.op_pc = "done"]
    ELSE IF s.op_attempt < RETRY_ATTEMPTS - 1
    THEN [s EXCEPT !.op_slept = Append(@, 2 ^ s.op_attempt), !.op_pc = "sleep"]
    ELSE [s EXCEPT !.op_pc = "done"]

\* set_thermostat_settings raised e: the command fails with it, inside a
\* command operation of the climate entity if one is running.
CommandRaise(s, e) ==
    IF s.op_pc = "running"
    THEN ClimateExcept([s EXCEPT !.refresh_exc = e], e)
    ELSE [s EXCEPT !.refresh_exc = e, !.pc = "done"]

\* set_thermostat_settings after _post_json returned: the result is the parsed
\* body of a JSON response (accepted: it has success = 1; otherwise it is
\* None or has another success value), or the response object itself for
\* application/octet-stream, which has no get().
CommandReturn(s0, ctype, accepted) ==
    LET s == [s0 EXCEPT !.reply = IF accepted THEN "accepted" ELSE "rejected"] IN
    IF ctype # "application/json"
    THEN CommandRaise(s, "AttributeError")
    ELSE IF accepted
    THEN IF s.op_pc = "running"
         THEN ClimateSubmit([s EXCEPT !.refresh_exc = "ok", !.op_todo = @ - 1])
         ELSE [s EXCEPT !.refresh_exc = "ok", !.pc = "done"]
    ELSE CommandRaise(s, "APIError")

\* _request_json_with_retry raised e to its caller: Device.refresh() in the
\* poll task, set_thermostat_settings in the command task.
RequestRaise(s, e) ==
    IF s.task = "cmd" THEN CommandRaise(s, e) ELSE RefreshRaise(s, e)

\* _request_json_with_retry returned the payload to its caller; flag is what
\* the caller reads in it (is_alive, or success = 1).
RequestReturn(s, ctype, flag) ==
    IF s.task = "cmd" THEN CommandReturn(s, ctype, flag) ELSE RefreshReturn(s, flag)

\* _request_json_with_retry: the end of an attempt that did not return.
NextAttempt(s) ==
    [s EXCEPT !.attempt = @ + 1, !.pc = "attempt"]

\* Faulty variant of RecordAndBackoff: the error is not recorded in last_error.
RecordAndBackoff_NoRecord(s, e) ==
    IF s.attempt < DEFAULT_RETRY_COUNT - 1
    THEN [s EXCEPT !.backoff = RETRY_BACKOFF_BASE ^ s.attempt, !.pc = "sleep"]
    ELSE NextAttempt(s)

\* Faulty variant of RecordAndBackoff: the loop sleeps after the last attempt too.
RecordAndBackoff_AlwaysSleep(s, e) ==
    [s EXCEPT !.last_error = e, !.backoff = RETRY_BACKOFF_BASE ^ s.attempt,
              !.pc = "sleep"]

\* The body shared by the three handlers that record the error: sleep if
\* attempts remain, then continue.
RecordAndBackoff(s, e) ==
    LET s1 == [s EXCEPT !.last_error = e] IN
    IF s1.attempt < DEFAULT_RETRY_COUNT - 1
    THEN [s1 EXCEPT !.backoff = RETRY_BACKOFF_BASE ^ s1.attempt, !.pc = "sleep"]
    ELSE NextAttempt(s1)

\* Faulty variant of RetryExcept: a 401/403 is retried like an outage, without a re-login.
RetryExcept_NoRelogin(s, e) ==
    CASE e \in {"UnauthorizedError", "ServiceUnavailable", "ConnectionError"} ->
           RecordAndBackoff(s, e)
      [] OTHER -> RequestRaise(s, e)

\* Faulty variant of RetryExcept: an unexpected response is retried like an outage.
RetryExcept_RetryUnexpected(s, e) ==
    CASE e = "UnauthorizedError" ->
           LoginCall([s EXCEPT !.is_authenticated = FALSE], "relogin")
      [] e \in {"ServiceUnavailable", "ConnectionError", "UnexpectedResponse"} ->
           RecordAndBackoff(s, e)
      [] OTHER -> RequestRaise(s, e)

\* Faulty variant of RetryExcept: on the last attempt a 401/403 is raised to the caller.
RetryExcept_RaiseOnLast(s, e) ==
    CASE e = "UnauthorizedError" ->
           IF s.attempt < DEFAULT_RETRY_COUNT - 1
           THEN LoginCall([s EXCEPT !.is_authenticated = FALSE], "relogin")
           ELSE RequestRaise([s EXCEPT !.is_authenticated = FALSE], e)
      [] e \in {"ServiceUnavailable", "ConnectionError"} -> RecordAndBackoff(s, e)
      [] OTHER -> RequestRaise(s, e)

\* The except clauses of the retry loop's try, for exception e raised by
\* ensure_authenticated() or _request_json().
RetryExcept(s, e) ==
    CASE e = "UnauthorizedError" ->
           LoginCall([s EXCEPT !.is_authenticated = FALSE], "relogin")
      [] e \in {"ServiceUnavailable", "ConnectionError"} -> RecordAndBackoff(s, e)
      [] OTHER -> RequestRaise(s, e)

\* _request_json issues the transport call.
IssueRequest(s) ==
    [s EXCEPT !.req_calls = @ + 1, !.pc = "request"]

\* Faulty variant of LoginRaise: a login error from ensure_authenticated() is
\* recorded and retried like one from the re-login.
LoginRaise_EnsureRetried(s0, e) ==
    LET ctx == s0.login_ctx
        s == [s0 EXCEPT !.login_result = e, !.login_ctx = "none"] IN
    CASE ctx = "update" -> CycleExcept(s, e)
      [] ctx \in {"ensure", "relogin"} ->
           IF e \in {"AuthError", "APIRateLimited"}
           THEN RecordAndBackoff(s, e)
           ELSE RequestRaise(s, e)
      [] ctx = "recover" ->
           IF e = "AuthError"
           THEN RaiseUpdateFailed([s EXCEPT !.consecutive_errors = @ + 1])
           ELSE [s EXCEPT !.result = "raised", !.pc = "done"]
      [] ctx = "setup" -> [s EXCEPT !.pc = "unloaded"]
      [] ctx = "page" -> DiscoverEnd(s)

\* login() raised e: control returns to the call site.
LoginRaise(s0, e) ==
    LET ctx == s0.login_ctx
        s == [s0 EXCEPT !.login_result = e, !.login_ctx = "none"] IN
    CASE ctx = "update" -> CycleExcept(s, e)
      [] ctx = "ensure" -> RetryExcept(s, e)
      [] ctx = "relogin" ->
           IF e \in {"AuthError", "APIRateLimited"}
           THEN RecordAndBackoff(s, e)
           ELSE RequestRaise(s, e)
      [] ctx = "recover" ->
           IF e = "AuthError"
           THEN RaiseUpdateFailed([s EXCEPT !.consecutive_errors = @ + 1])
           ELSE [s EXCEPT !.result = "raised", !.pc = "done"]
      [] ctx = "setup" -> [s EXCEPT !.pc = "unloaded"]
      [] ctx = "page" -> DiscoverEnd(s)

\* login() rejected: _set_null_count(), then AuthError.  An empty cookie
\* extends the run of empty-cookie logins, a 401 ends it.
LoginReject(s, empty) ==
    LoginRaise([SetNullCount(s) EXCEPT
                    !.null_run = IF empty THEN @ + 1 ELSE 0,
                    !.null_at = IF empty THEN s.now ELSE 0],
               "AuthError")

\* Faulty variant of LoginConnectionError: the failure counts like a rejection.
LoginConnectionError_Counted(s) ==
    LoginRaise([SetNullCount(s) EXCEPT !.null_run = 0, !.null_at = 0],
               "ConnectionError")

\* login() failed on a status other than 200 and 401, or on aiohttp.ClientError
\* (which _convert_errors turns into ConnectionError).
LoginConnectionError(s) ==
    LoginRaise([s EXCEPT !.null_run = 0, !.null_at = 0], "ConnectionError")

\* login() returned: control returns to the call site.
LoginReturn(s0) ==
    LET ctx == s0.login_ctx
        s == [s0 EXCEPT !.null_cookie_count = 0, !.is_authenticated = TRUE,
                        !.login_result = "ok", !.login_ctx = "none",
                        !.null_run = 0, !.null_at = 0] IN
    CASE ctx = "update" -> [s EXCEPT !.pc = "dev_loop"]
      [] ctx = "ensure" -> IssueRequest(s)
      [] ctx = "relogin" -> NextAttempt([s EXCEPT !.relogins = @ + 1])
      [] ctx = "recover" -> UpdateBody(s)
      [] ctx = "setup" -> NextPage([s EXCEPT !.page = 1, !.found = FALSE])
      [] ctx = "page" -> [s EXCEPT !.pc = "page"]

\* Faulty variant of LoginCall: the gate's comparison is inverted.
LoginCall_GateInverted(s0, ctx) ==
    LET s == [s0 EXCEPT !.login_ctx = ctx, !.login_gated = (s0.now < s0.next_login),
                        !.login_entry = <<s0.is_authenticated,
                                          s0.null_cookie_count, s0.next_login>>,
                        !.login_in_window =
                            (s0.null_run >= 3 /\ s0.now < s0.null_at + 10),
                        !.login_calls = 0, !.login_result = "pending"] IN
    IF s.next_login < s.now
    THEN LoginRaise(s, "APIRateLimited")
    ELSE [s EXCEPT !.login_calls = 1, !.pc = "login_post"]

\* login(), up to its first await: the rate-limit gate, then the POST.
LoginCall(s0, ctx) ==
    LET s == [s0 EXCEPT !.login_ctx = ctx, !.login_gated = (s0.now < s0.next_login),
                        !.login_entry = <<s0.is_authenticated,
                                          s0.null_cookie_count, s0.next_login>>,
                        !.login_in_window =
                            (s0.null_run >= 3 /\ s0.now < s0.null_at + 10),
                        !.login_calls = 0, !.login_result = "pending"] IN
    IF s.next_login > s.now
    THEN LoginRaise(s, "APIRateLimited")
    ELSE [s EXCEPT !.login_calls = 1, !.pc = "login_post"]

\* _async_update_data, up to its first await or the device loop.
UpdateBody(s0) ==
    LET s == [s0 EXCEPT !.idx = 1, !.device_data = <<>>] IN
    IF s.is_authenticated
    THEN [s EXCEPT !.pc = "dev_loop"]
    ELSE LoginCall(s, "update")

\* Device.refresh(): it fetches the device's data with get_thermostat_data and
\* raises what that raises.
DeviceRefresh(s) ==
    StartRequest(s)

\* The scenario monitor's step on the classified response c of device d.
ScenStep(sc, d, c) ==
    CASE sc = "A0" /\ d = 1 /\ c = "ServiceUnavailable" -> "A1"
      [] sc = "A1" /\ d = 1 /\ c = "ServiceUnavailable" -> "A2"
      [] sc = "A2" /\ d = 1 /\ c = "ok" -> "A3"
      [] sc = "A3" /\ d = 2 /\ c = "ok" -> "B1"
      [] sc = "B1" /\ d > 2 -> "B1"
      [] OTHER -> "off"

\* The re-authentication monitor's step on event ev: the request was entered
\* with the session believed valid (R0), its response said 401/403 while
\* login was not rate-limited (R1), the login POST got 200 (R2), the login
\* was verified (R3), the re-issued request returned its payload (R4).  A
\* login response after R3 is a second handshake (bad).
ReauthStep(r, ev) ==
    CASE r = "none" -> "none"
      [] r = "R0" /\ ev = "expired" -> "R1"
      [] r = "R1" /\ ev = "post_ok" -> "R2"
      [] r = "R2" /\ ev = "login_ok" -> "R3"
      [] r = "R3" /\ ev = "payload" -> "R4"
      [] r = "R3" /\ ev \in {"post_ok", "login_ok", "login_other"} -> "bad"
      [] r = "bad" -> "bad"
      [] OTHER -> "off"

\* ------------------------------------------------------------- actions

Init ==
    /\ now = 0
    /\ is_authenticated = FALSE
    /\ null_cookie_count = 0
    /\ next_login = 0
    /\ consecutive_errors = 0
    /\ data = <<>>
    /\ pc = "idle"
    /\ login_ctx = "none"
    /\ idx = 1
    /\ device_data = <<>>
    /\ attempt = 0
    /\ last_error = "None"
    /\ backoff = 0
    /\ result = "none"
    /\ returned = <<>>
    /\ cycle_exc = "None"
    /\ login_gated = FALSE
    /\ login_calls = 0
    /\ login_result = "none"
    /\ null_run = 0
    /\ null_at = 0
    /\ login_in_window = FALSE
    /\ req_entry = FALSE
    /\ req_calls = 0
    /\ relogins = 0
    /\ errors_at_start = 0
    /\ invoked = <<>>
    /\ failed = <<>>
    /\ refresh_exc = "None"
    /\ scen = "none"
    /\ last_unauth = FALSE
    /\ login_cookie = "none"
    /\ login_status = 0
    /\ login_entry = <<>>
    /\ rl_run = 0
    /\ req_class = "none"
    /\ resp_in = NoOutcome
    /\ reauth = "none"
    /\ page = 0
    /\ found = FALSE
    /\ cmd_pc = "idle"
    /\ cmd_login_ctx = "none"
    /\ cmd_attempt = 0
    /\ cmd_last_error = "None"
    /\ cmd_calls = 0
    /\ cmd_result = "None"
    /\ cmd_reply = "none"
    /\ op_pc = "none"
    /\ op_settings = 0
    /\ op_todo = 0
    /\ op_attempt = 0
    /\ op_exc = "None"
    /\ op_failed = 0
    /\ op_slept = <<>>
    /\ op_refreshes = 0

\* TickStep minutes pass while the tasks are suspended.
Tick ==
    /\ pc \in {"unloaded", "page", "idle", "login_post", "login_get", "request",
              "sleep"}
    /\ now + TickStep <= MaxTime
    /\ Apply([St EXCEPT !.now = @ + TickStep])

\* The scheduler calls _async_update_data.
UpdateStart ==
    /\ pc = "idle"
    /\ consecutive_errors < MaxErrors
    /\ Apply(UpdateBody([St EXCEPT !.errors_at_start = consecutive_errors]))

\* login() after its POST got a response with this status.
LoginPost(s0, status) ==
    LET s == [s0 EXCEPT !.last_unauth = (status \in {401, 403}),
                        !.login_status = status,
                        !.reauth = ReauthStep(@, IF status = 200 THEN "post_ok"
                                                 ELSE "login_other")] IN
    IF status = 401 THEN LoginReject(s, FALSE)
    ELSE IF status # 200 THEN LoginConnectionError(s)
    ELSE [s EXCEPT !.login_calls = 2, !.pc = "login_get"]

\* login() after its POST or its verification GET raised aiohttp.ClientError.
LoginTransportError(s0) ==
    LoginConnectionError([s0 EXCEPT !.last_unauth = FALSE,
                                    !.reauth = ReauthStep(@, "login_other")])

\* login() after its verification GET got a response with this status and cookie.
LoginVerify(s0, status, cookie) ==
    LET s == [s0 EXCEPT !.last_unauth = (status \in {401, 403}),
                        !.login_status = status,
                        !.login_cookie = IF status = 200 THEN cookie ELSE "none",
                        !.reauth = ReauthStep(@, IF status = 200 /\ cookie # "empty"
                                                 THEN "login_ok"
                                                 ELSE "login_other")] IN
    IF cookie = "empty" THEN LoginReject(s, TRUE)
    ELSE IF status = 401 THEN LoginReject(s, FALSE)
    ELSE IF status # 200 THEN LoginConnectionError(s)
    ELSE LoginReturn(s)

\* The login POST completes: a response with a status, or aiohttp.ClientError.
LoginPostResponse ==
    /\ pc = "login_post"
    /\ \/ \E status \in Statuses : Apply(LoginPost(St, status))
       \/ Apply(LoginTransportError(St))

\* The verification GET completes.
LoginGetResponse ==
    /\ pc = "login_get"
    /\ \/ \E status \in Statuses, cookie \in Cookies :
            Apply(LoginVerify(St, status, cookie))
       \/ Apply(LoginTransportError(St))

\* The head of the device loop: the next device's refresh(), or the end of the cycle.
DeviceLoopStep ==
    /\ pc = "dev_loop"
    /\ Apply(IF idx > NumDevices
             THEN ReturnFresh(St)
             ELSE DeviceRefresh([St EXCEPT !.invoked = Append(@, idx),
                                           !.reauth = IF is_authenticated
                                                      THEN "R0" ELSE "off"]))

\* Faulty variant of AttemptStep: the loop runs one attempt too many.
AttemptStep_OneMore ==
    /\ pc = "attempt"
    /\ LET s == [St EXCEPT !.req_entry = FALSE] IN
       Apply(IF attempt <= DEFAULT_RETRY_COUNT
             THEN IF is_authenticated THEN IssueRequest(s)
                  ELSE LoginCall(s, "ensure")
             ELSE IF last_error # "None" THEN RefreshRaise(s, last_error)
                  ELSE RefreshRaise(s, "SomeComfortError"))

\* Faulty variant of AttemptStep: ensure_authenticated() logs in whatever the flag says.
AttemptStep_AlwaysLogin ==
    /\ pc = "attempt"
    /\ LET s == [St EXCEPT !.req_entry = FALSE] IN
       Apply(IF attempt < DEFAULT_RETRY_COUNT
             THEN LoginCall(s, "ensure")
             ELSE IF last_error # "None" THEN RefreshRaise(s, last_error)
                  ELSE RefreshRaise(s, "SomeComfortError"))

\* The head of the retry loop: the next attempt (ensure_authenticated(), then
\* the request), or the exhaustion of the attempts.
Attempt(s0) ==
    LET s == [s0 EXCEPT !.req_entry = FALSE] IN
    IF s.attempt < DEFAULT_RETRY_COUNT
    THEN IF s.is_authenticated THEN IssueRequest(s)
         ELSE LoginCall(s, "ensure")
    ELSE IF s.last_error # "None" THEN RequestRaise(s, s.last_error)
         ELSE RequestRaise(s, "SomeComfortError")

\* The poll task is at the head of the retry loop.
AttemptStep ==
    /\ pc = "attempt"
    /\ Apply(Attempt(St))

\* _request_json after its transport call got this response; flag is what the
\* caller reads in the payload.
Response(s0, status, ctype, redirected, flag) ==
    LET c == Classify(status, ctype, redirected)
        s == [s0 EXCEPT !.scen = ScenStep(@, s0.idx, c),
                        !.req_class = c,
                        !.last_unauth = (status \in {401, 403}),
                        !.reauth = ReauthStep(@,
                            IF c = "ok" THEN "payload"
                            ELSE IF c = "UnauthorizedError"
                                    /\ s0.next_login <= s0.now
                            THEN "expired" ELSE "other")] IN
    IF c = "ok"
    THEN RequestReturn([s EXCEPT !.null_cookie_count = 0], ctype, flag)
    ELSE IF c = "UnauthorizedError"
    THEN RetryExcept([s EXCEPT !.is_authenticated = FALSE], c)
    ELSE RetryExcept(s, c)

\* _request_json after its transport call raised aiohttp.ClientError, which
\* nothing converts.
ResponseTransportError(s0) ==
    RetryExcept([s0 EXCEPT !.scen = "off", !.last_unauth = FALSE,
                           !.req_class = "ClientError",
                           !.reauth = ReauthStep(@, "other")],
                "ClientError")

\* The API request completes: a response, or aiohttp.ClientError.
RequestResponse ==
    /\ pc = "request"
    /\ \/ \E status \in Statuses, ctype \in ContentTypes, redirected \in BOOLEAN,
             alive \in BOOLEAN :
            Apply(Response(St, status, ctype, redirected, alive))
       \/ Apply(ResponseTransportError(St))

\* asyncio.sleep(backoff) completes.
SleepDone ==
    /\ pc = "sleep"
    /\ Apply(NextAttempt([St EXCEPT !.backoff = 0]))

\* The scheduler takes the cycle's outcome: a returned mapping becomes the
\* stored snapshot, a raised failure leaves it alone.
FinishCycle ==
    /\ pc = "done"
    /\ Apply([St EXCEPT !.data = IF result \in {"fresh", "stale"} THEN returned ELSE @,
                        !.pc = "idle", !.idx = 1,
                        !.device_data = <<>>, !.attempt = 0, !.last_error = "None",
                        !.result = "none", !.returned = <<>>, !.cycle_exc = "None",
                        !.login_gated = FALSE, !.login_in_window = FALSE,
                        !.login_calls = 0, !.login_result = "none",
                        !.req_calls = 0, !.relogins = 0, !.errors_at_start = 0,
                        !.invoked = <<>>, !.failed = <<>>,
                        !.refresh_exc = "None", !.scen = "none",
                        !.reauth = "none",
                        !.rl_run = IF cycle_exc = "APIRateLimited"
                                   THEN @ + 1 ELSE 0])

\* async_setup_entry: a new client is constructed and logs in.
SetupStart ==
    /\ pc = "unloaded"
    /\ Apply(LoginCall([St EXCEPT !.is_authenticated = FALSE,
                                  !.null_cookie_count = 0, !.next_login = now,
                                  !.null_run = 0, !.null_at = 0,
                                  !.last_unauth = FALSE],
                       "setup"))

\* The POST of a location page completes: a response whose status is not
\* looked at, or an exception, which ends the loop.
PageResponse ==
    /\ pc = "page"
    /\ \/ \E status \in Statuses, ctype \in ContentTypes, listed \in BOOLEAN :
            Apply(NextPage([St EXCEPT
                    !.last_unauth = (status \in {401, 403}),
                    !.found = @ \/ (ctype = "application/json" /\ listed),
                    !.page = @ + 1]))
       \/ Apply(DiscoverEnd([St EXCEPT !.last_unauth = FALSE]))

Next ==
    \/ Tick
    \/ UpdateStart
    \/ LoginPostResponse
    \/ LoginGetResponse
    \/ DeviceLoopStep
    \/ AttemptStep
    \/ RequestResponse
    \/ SleepDone
    \/ FinishCycle

Spec == Init /\ [][Next]_vars

\* The awaits complete (every transport call carries a timeout, every sleep is
\* finite) and the code between them runs: weak fairness of the task's steps.
\* Time need not advance.
LiveSpec ==
    /\ Spec
    /\ WF_vars(LoginPostResponse)
    /\ WF_vars(LoginGetResponse)
    /\ WF_vars(DeviceLoopStep)
    /\ WF_vars(AttemptStep)
    /\ WF_vars(RequestResponse)
    /\ WF_vars(SleepDone)
    /\ WF_vars(FinishCycle)

\* ------------------------------------------------- the command task

\* A command of the user reaches set_thermostat_settings, which posts the
\* settings through _post_json and _request_json_with_retry.
CmdStart ==
    /\ cmd_pc = "idle"
    /\ ApplyCmd(StartRequest(CmdSt))

CmdAttemptStep ==
    /\ cmd_pc = "attempt"
    /\ ApplyCmd(Attempt(CmdSt))

CmdLoginPostResponse ==
    /\ cmd_pc = "login_post"
    /\ \/ \E status \in Statuses : ApplyCmd(LoginPost(CmdSt, status))
       \/ ApplyCmd(LoginTransportError(CmdSt))

CmdLoginGetResponse ==
    /\ cmd_pc = "login_get"
    /\ \/ \E status \in Statuses, cookie \in Cookies :
            ApplyCmd(LoginVerify(CmdSt, status, cookie))
       \/ ApplyCmd(LoginTransportError(CmdSt))

\* The submission completes: a response (accepted: its body has success = 1),
\* or aiohttp.ClientError.
CmdRequestResponse ==
    /\ cmd_pc = "request"
    /\ \/ \E status \in Statuses, ctype \in ContentTypes, redirected \in BOOLEAN,
             accepted \in BOOLEAN :
            ApplyCmd(Response(CmdSt, status, ctype, redirected, accepted))
       \/ ApplyCmd(ResponseTransportError(CmdSt))

CmdSleepDone ==
    /\ cmd_pc = "sleep"
    /\ ApplyCmd(NextAttempt(CmdSt))

\* The user calls a command operation of the climate entity that submits n
\* settings in an attempt: async_set_temperature with up to three
\* temperatures, async_set_hvac_mode or async_set_fan_mode with one.
ClimateStart ==
    /\ op_pc = "none"
    /\ \E n \in 0..MaxSettings :
         ApplyCmd(ClimateSubmit([CmdSt EXCEPT !.op_pc = "running",
                                              !.op_settings = n,
                                              !.op_todo = n,
                                              !.op_attempt = 0]))

\* The sleep of a command operation ends: the next attempt begins.
ClimateSleepDone ==
    /\ op_pc = "sleep"
    /\ ApplyCmd(ClimateSubmit([CmdSt EXCEPT !.op_pc = "running",
                                            !.op_attempt = @ + 1,
                                            !.op_todo = op_settings]))

\* One command operation of the climate entity on a logged-in or logged-out
\* client, alone.
ClimateNext ==
    \/ ClimateStart
    \/ CmdAttemptStep
    \/ CmdLoginPostResponse
    \/ CmdLoginGetResponse
    \/ CmdRequestResponse
    \/ CmdSleepDone
    \/ ClimateSleepDone

ClimateSpec == Init /\ [][ClimateNext]_vars

\* The steps of the poll task while a command may be running.
PollStart ==
    /\ pc = "idle"
    /\ consecutive_errors < MaxErrors
    /\ ApplyPoll(UpdateBody(St))

PollLoginPostResponse ==
    /\ pc = "login_post"
    /\ \/ \E status \in Statuses : ApplyPoll(LoginPost(St, status))
       \/ ApplyPoll(LoginTransportError(St))

PollLoginGetResponse ==
    /\ pc = "login_get"
    /\ \/ \E status \in Statuses, cookie \in Cookies :
            ApplyPoll(LoginVerify(St, status, cookie))
       \/ ApplyPoll(LoginTransportError(St))

PollDeviceLoopStep ==
    /\ pc = "dev_loop"
    /\ ApplyPoll(IF idx > NumDevices THEN ReturnFresh(St) ELSE DeviceRefresh(St))

PollAttemptStep ==
    /\ pc = "attempt"
    /\ ApplyPoll(Attempt(St))

PollRequestResponse ==
    /\ pc = "request"
    /\ \/ \E status \in Statuses, ctype \in ContentTypes, redirected \in BOOLEAN,
             alive \in BOOLEAN :
            ApplyPoll(Response(St, status, ctype, redirected, alive))
       \/ ApplyPoll(ResponseTransportError(St))

PollSleepDone ==
    /\ pc = "sleep"
    /\ ApplyPoll(NextAttempt(St))

\* One poll cycle and one command on the same client, within one interval of
\* the clock: each step is a step of one of the two tasks, in any order.
CmdNext ==
    \/ PollStart
    \/ PollLoginPostResponse
    \/ PollLoginGetResponse
    \/ PollDeviceLoopStep
    \/ PollAttemptStep
    \/ PollRequestResponse
    \/ PollSleepDone
    \/ CmdStart
    \/ CmdAttemptStep
    \/ CmdLoginPostResponse
    \/ CmdLoginGetResponse
    \/ CmdRequestResponse
    \/ CmdSleepDone

CmdSpec == Init /\ [][CmdNext]_vars

\* The API request of the poll task completes, with any of the statuses
\* _request_json distinguishes; the outcome of the transport call is recorded
\* next to what _request_json made of it.
ObservedRequestResponse ==
    /\ pc = "request"
    /\ \/ \E status \in ClassifyStatuses, ctype \in ContentTypes,
             redirected \in BOOLEAN, alive \in BOOLEAN :
            ApplyObserved(Response(St, status, ctype, redirected, alive),
                          ResponseOutcome(status, ctype, redirected))
       \/ ApplyObserved(ResponseTransportError(St), RaisedOutcome)

\* One poll cycle in which every API transport call is observed.
ClassifyNext ==
    \/ PollStart
    \/ PollLoginPostResponse
    \/ PollLoginGetResponse
    \/ PollDeviceLoopStep
    \/ PollAttemptStep
    \/ ObservedRequestResponse
    \/ PollSleepDone

ClassifySpec == Init /\ [][ClassifyNext]_vars

\* The program from the setup of the entry on: the setup logs in and
\* discovers the locations, then the poll cycles run.
SetupInit ==
    /\ now = 0
    /\ is_authenticated = FALSE
    /\ null_cookie_count = 0
    /\ next_login = 0
    /\ consecutive_errors = 0
    /\ data = <<>>
    /\ pc = "unloaded"
    /\ login_ctx = "none"
    /\ idx = 1
    /\ device_data = <<>>
    /\ attempt = 0
    /\ last_error = "None"
    /\ backoff = 0
    /\ result = "none"
    /\ returned = <<>>
    /\ cycle_exc = "None"
    /\ login_gated = FALSE
    /\ login_calls = 0
    /\ login_result = "none"
    /\ null_run = 0
    /\ null_at = 0
    /\ login_in_window = FALSE
    /\ req_entry = FALSE
    /\ req_calls = 0
    /\ relogins = 0
    /\ errors_at_start = 0
    /\ invoked = <<>>
    /\ failed = <<>>
    /\ refresh_exc = "None"
    /\ scen = "none"
    /\ last_unauth = FALSE
    /\ login_cookie = "none"
    /\ login_status = 0
    /\ login_entry = <<>>
    /\ rl_run = 0
    /\ req_class = "none"
    /\ resp_in = NoOutcome
    /\ reauth = "none"
    /\ page = 0
    /\ found = FALSE
    /\ cmd_pc = "idle"
    /\ cmd_login_ctx = "none"
    /\ cmd_attempt = 0
    /\ cmd_last_error = "None"
    /\ cmd_calls = 0
    /\ cmd_result = "None"
    /\ cmd_reply = "none"
    /\ op_pc = "none"
    /\ op_settings = 0
    /\ op_todo = 0
    /\ op_attempt = 0
    /\ op_exc = "None"
    /\ op_failed = 0
    /\ op_slept = <<>>
    /\ op_refreshes = 0

SetupNext ==
    \/ SetupStart
    \/ PageResponse
    \/ Next

SetupSpec == SetupInit /\ [][SetupNext]_vars

\* ------------------------------------------------------------- properties

\* C1: a login() called while now < next_login fails with APIRateLimited and
\* has issued no transport call (neither the POST nor the verification GET).
C1_GatedLoginIsRateLimited ==
    login_gated => (login_result = "APIRateLimited" /\ login_calls = 0)

C1_Witness ==
    login_gated /\ login_result = "APIRateLimited" /\ login_calls = 0

\* C2: after 3 consecutive login() calls that ended with an empty auth cookie,
\* next_login is the time of the third failure plus 10 minutes, and a login()
\* called before that time fails with APIRateLimited without a transport call.
C2_CooldownAfterThreeEmptyCookies ==
    /\ null_run >= 3 => next_login = null_at + 10
    /\ login_in_window => (login_result = "APIRateLimited" /\ login_calls = 0)

C2_Witness ==
    null_run = 3 /\ login_in_window /\ login_result = "APIRateLimited"

\* C3: one _request_json_with_retry call issues at most 3 transport calls for
\* the requested operation, whatever the responses and the login outcomes, and
\* it ends: control comes back to the device loop or the cycle ends.
C3_RetryBoundedAndTerminates ==
    /\ [](req_calls <= 3)
    /\ (req_entry ~> pc \in {"dev_loop", "done"})

C3_Witness ==
    pc = "dev_loop" /\ Len(failed) >= 1 /\ req_calls = 3 /\ relogins >= 1
        /\ refresh_exc = "ServiceUnavailable"

\* C4 as stated: _request_json_with_retry never fails with the generic
\* SomeComfortError("Request failed after all retries").
C4_NeverGenericError ==
    refresh_exc # "SomeComfortError"

\* C4 as amended: the generic error is raised exactly when the attempts are
\* used up with no error recorded, and then every one of the 3 attempts got a
\* 401/403 followed by a successful re-login; when the attempts are used up
\* with an error recorded, the last recorded error is the one raised.
C4_GenericOnlyAfterReloginsSucceeded ==
    /\ refresh_exc = "SomeComfortError" =>
            (attempt = 3 /\ last_error = "None" /\ relogins = 3 /\ req_calls = 3)
    /\ (attempt = 3 /\ pc # "attempt") =>
            refresh_exc = (IF last_error = "None" THEN "SomeComfortError"
                           ELSE last_error)
    /\ (relogins = 3 /\ pc # "attempt") => refresh_exc = "SomeComfortError"

C4_Witness ==
    refresh_exc = "SomeComfortError" /\ relogins = 3

\* C5: once the cycle's initial ensure_authenticated() has succeeded, a
\* refresh() that fails with a SomeComfortError kind does not end the cycle:
\* a cycle that returns its device_data has called refresh() once for every
\* device, in order, has an entry for every device, and the entry of a device
\* whose refresh() raised has available = False; a cycle that ends after a
\* refresh() without having refreshed every device ended on an error that is
\* no SomeComfortError.
C5_RefreshFailureIsIsolated ==
    /\ \A d \in 1..Len(failed) :
            (d <= Len(device_data) /\ failed[d]) => device_data[d] = FALSE
    /\ result = "fresh" =>
            /\ invoked = [d \in 1..NumDevices |-> d]
            /\ Len(returned) = NumDevices
            /\ Len(failed) = NumDevices
            /\ \A d \in 1..NumDevices : failed[d] => returned[d] = FALSE
    /\ (pc = "done" /\ result # "fresh" /\ Len(failed) > 0) =>
            refresh_exc \notin SomeComfortErrors

C5_Witness ==
    /\ result = "fresh"
    /\ \E d, e \in 1..NumDevices : d < e /\ failed[d] /\ ~failed[e] /\ returned[e]

\* C6 as stated: a cycle sets consecutive_errors to 0 if and only if it had no
\* device-level refresh exception and no cycle-level error.
C6_ResetOnlyOnCleanCycle ==
    pc = "done" =>
        ((result = "fresh" /\ consecutive_errors = 0)
            <=> (cycle_exc = "None" /\ \A d \in 1..Len(failed) : ~failed[d]))

\* C7 as stated: from consecutive_errors = 4, a cycle that fails with
\* ConnectionError returns the previous snapshot and leaves the counter at 5.
C7_FifthFailureReturnsStale ==
    (pc = "done" /\ cycle_exc = "ConnectionError" /\ errors_at_start = 4) =>
        (result = "stale" /\ returned = data /\ consecutive_errors = 5)

\* C7 as amended: from consecutive_errors = 4, a cycle that fails with
\* ConnectionError raises UpdateFailed and leaves the counter at 5; the
\* previous snapshot is returned by such a cycle only from 3 or less.
C7_FifthFailureIsFatal ==
    (pc = "done" /\ cycle_exc = "ConnectionError") =>
        /\ errors_at_start = 4 =>
                (result = "UpdateFailed" /\ consecutive_errors = 5)
        /\ errors_at_start <= 3 =>
                (result = "stale" /\ returned = data
                    /\ consecutive_errors = errors_at_start + 1)

C7_Witness ==
    /\ pc = "done" /\ cycle_exc = "ConnectionError" /\ errors_at_start = 4
    /\ result = "UpdateFailed" /\ data # <<>>

\* C8: a cycle that fails as a whole with ServiceUnavailable or ConnectionError
\* increments consecutive_errors by exactly 1; below 5 it returns the stored
\* snapshot (the empty mapping if there is none) and does not fail, at 5 or
\* more it raises UpdateFailed.
C8_TransientCycleFailure ==
    (pc = "done" /\ cycle_exc \in {"ServiceUnavailable", "ConnectionError"}) =>
        /\ consecutive_errors = errors_at_start + 1
        /\ consecutive_errors < 5 => (result = "stale" /\ returned = data)
        /\ consecutive_errors >= 5 => result = "UpdateFailed"

C8_Witness ==
    /\ pc = "done" /\ cycle_exc = "ConnectionError" /\ result = "stale"
    /\ returned = data /\ data # <<>> /\ consecutive_errors = 4

\* C9: a cycle for which APIRateLimited surfaces never raises UpdateFailed: it
\* returns the stored snapshot (the empty mapping if there is none), and no
\* device is refreshed in that cycle.
C9_RateLimitedCycleReturnsStale ==
    (pc = "done" /\ cycle_exc = "APIRateLimited") =>
        (result = "stale" /\ returned = data /\ invoked = <<>>)

C9_Witness ==
    /\ pc = "done" /\ cycle_exc = "APIRateLimited" /\ result = "stale"
    /\ data # <<>> /\ consecutive_errors >= 5

\* C10: every _request_json_with_retry call starts at its first attempt with
\* no pending error; when device 1's request gets ServiceUnavailable twice and
\* then a success, and device 2's request a success at once, both refreshes
\* succeed, with 3 transport calls for device 1 and 1 for device 2, and the
\* cycle returns an entry for both.
C10_RetryStateIsPerRequest ==
    /\ req_entry => (attempt = 0 /\ last_error = "None")
    /\ (scen = "A3" /\ pc = "dev_loop" /\ idx = 2) =>
            (req_calls = 3 /\ ~failed[1])
    /\ (scen = "B1" /\ pc = "dev_loop" /\ idx = 3) =>
            (req_calls = 1 /\ ~failed[1] /\ ~failed[2])
    /\ (scen = "B1" /\ pc = "done") =>
            (result = "fresh" /\ Len(returned) = NumDevices
                /\ ~failed[1] /\ ~failed[2])

C10_Witness ==
    scen = "B1" /\ pc = "done" /\ result = "fresh" /\ returned[1] /\ returned[2]

\* C12: ensure_authenticated() called with the flag set issues no transport
\* call and changes no session state: the attempt goes straight to its request
\* and the cycle straight to its device loop; called with the flag clear it
\* calls login() exactly once (the POST is issued, or the gate refuses it).
C12_EnsureAuthenticatedIsNoOp ==
    [][/\ (pc = "attempt" /\ attempt < DEFAULT_RETRY_COUNT /\ is_authenticated) =>
            /\ pc' = "request" /\ req_calls' = req_calls + 1
            /\ login_calls' = login_calls /\ login_result' = login_result
            /\ UNCHANGED <<is_authenticated, null_cookie_count, next_login>>
       /\ (pc = "idle" /\ pc' # "idle" /\ is_authenticated) =>
            /\ pc' = "dev_loop" /\ login_calls' = 0
            /\ UNCHANGED <<is_authenticated, null_cookie_count, next_login>>
       /\ (pc = "attempt" /\ attempt < DEFAULT_RETRY_COUNT /\ ~is_authenticated) =>
            \/ pc' = "login_post" /\ login_calls' = 1 /\ login_result' = "pending"
            \/ /\ next_login > now /\ login_calls' = 0
               /\ login_result' = "APIRateLimited" /\ pc' = "dev_loop"
       /\ (pc = "idle" /\ pc' # "idle" /\ ~is_authenticated) =>
            \/ pc' = "login_post" /\ login_calls' = 1 /\ login_result' = "pending"
            \/ /\ next_login > now /\ login_calls' = 0
               /\ login_result' = "APIRateLimited" /\ pc' = "done"
      ]_vars

C12_Witness ==
    /\ pc = "request" /\ idx = 2 /\ ~failed[1] /\ is_authenticated
    /\ login_calls = 0 /\ login_result = "none" /\ req_calls = 1

C17_LoginErrorEndsCall ==
    last_error \in {"AuthError", "APIRateLimited"} =>
        pc \notin {"login_post", "login_get", "request"}

\* C17 as amended: an AuthError or APIRateLimited raised by the login() of
\* ensure_authenticated() ends the call at once and is the error raised; one
\* raised by the re-login after a 401/403 is recorded in last_error, followed
\* by the backoff sleep and the next attempt while attempts remain; when the
\* attempts are used up, the recorded error is the one raised.
C17_LoginErrorRetriedOnlyAfterRelogin ==
    [][/\ (pc = "attempt" /\ attempt < DEFAULT_RETRY_COUNT /\ ~is_authenticated
                /\ next_login > now) =>
            (pc' = "dev_loop" /\ refresh_exc' = "APIRateLimited"
                /\ failed' = Append(failed, TRUE))
       /\ (login_ctx = "ensure" /\ login_result' \in {"AuthError", "APIRateLimited"}) =>
            (pc' = "dev_loop" /\ refresh_exc' = login_result'
                /\ failed' = Append(failed, TRUE))
       /\ (login_ctx = "relogin" /\ login_result' = "AuthError") =>
            /\ last_error' = "AuthError"
            /\ pc' = (IF attempt < DEFAULT_RETRY_COUNT - 1 THEN "sleep" ELSE "attempt")
       /\ (pc = "request" /\ pc' # "request" /\ last_unauth' /\ next_login > now) =>
            /\ last_error' = "APIRateLimited"
            /\ pc' = (IF attempt < DEFAULT_RETRY_COUNT - 1 THEN "sleep" ELSE "attempt")
       /\ (pc = "attempt" /\ attempt = DEFAULT_RETRY_COUNT
                /\ last_error \in {"AuthError", "APIRateLimited"}) =>
            (pc' = "dev_loop" /\ refresh_exc' = last_error)
      ]_vars

C17_Witness ==
    pc = "login_post" /\ login_ctx = "ensure" /\ last_error = "AuthError"
        /\ attempt = 1

\* C18 as stated: a _request_json_with_retry call that fails with
\* ConnectionError or ServiceUnavailable has made all its attempts.
C18_TransientOnlyAfterAllAttempts ==
    refresh_exc \in {"ConnectionError", "ServiceUnavailable"} =>
        attempt = DEFAULT_RETRY_COUNT

\* C19 as stated: a login() whose two responses have status 200 and whose
\* auth cookie is missing or empty fails with AuthError, has incremented the
\* null-cookie counter and leaves the flag clear.
C19_MissingOrEmptyCookieIsRejected ==
    login_cookie \in {"empty", "missing"} =>
        (login_result = "AuthError" /\ ~is_authenticated /\ null_cookie_count >= 1)

\* C20: when a request entered with the flag set gets 401/403, login is not
\* rate-limited, the login succeeds and the re-issued request gets its
\* payload, the call made exactly one login handshake (two transport calls)
\* and two requests, and it returns with the flag set.
C20_AutomaticReauthentication ==
    /\ reauth # "bad"
    /\ reauth = "R1" =>
            (pc = "login_post" /\ login_ctx = "relogin" /\ ~is_authenticated)
    /\ reauth = "R3" => (pc \in {"attempt", "request"} /\ is_authenticated)
    /\ reauth = "R4" =>
            /\ pc \in {"dev_loop", "done"}
            /\ ~failed[Len(failed)] /\ Len(device_data) = Len(failed)
            /\ is_authenticated /\ req_calls = 2 /\ relogins = 1
            /\ login_calls = 2 /\ login_result = "ok" /\ attempt = 1

C20_Witness ==
    reauth = "R4" /\ pc = "dev_loop" /\ is_authenticated /\ req_calls = 2

\* C13 as stated: whenever the flag is set, the most recent transport call of
\* the session (login POST, verification GET, API request, location page) did
\* not return status 401 or 403.
C13_AuthenticatedImpliesLastCallAuthorized ==
    is_authenticated => ~last_unauth

\* C14 as stated: in the session of a loaded or loading entry, the flag goes
\* from set to clear only in a step that receives a 401 or 403 response, every
\* step that receives a 401 or 403 response leaves the flag clear, and the
\* flag goes from clear to set only in the step that ends a login() with
\* success.
C14_FlagFollowsUnauthorizedAndLogin ==
    [][(pc # "unloaded" /\ pc' # "unloaded") =>
        LET response == pc \in {"login_post", "login_get", "request", "page"}
                            /\ now' = now IN
        /\ (is_authenticated /\ ~is_authenticated') => (response /\ last_unauth')
        /\ (response /\ last_unauth') => ~is_authenticated'
        /\ (~is_authenticated /\ is_authenticated') =>
                (pc = "login_get" /\ response /\ login_result' = "ok")
      ]_vars


\* C11: when the submission of a command gets HTTP 200 with a body whose
\* success field is not 1, or with no body, set_thermostat_settings fails
\* with APIError, and the response is not retried.
C11_RejectedSubmissionIsApiError ==
    cmd_reply = "rejected" => (cmd_pc = "done" /\ cmd_result = "APIError")

\* C15: the poll task and the command task are never both between the start
\* and the end of login().
C15_OneLoginInFlight ==
    ~(pc \in {"login_post", "login_get"} /\ cmd_pc \in {"login_post", "login_get"})

\* C22: a cycle whose outer try caught an error other than UnauthorizedError,
\* APIRateLimited, ServiceUnavailable and ConnectionError (an AuthError of the
\* initial ensure_authenticated() among them) ends with UpdateFailed and with
\* the counter one above its value at the start of the cycle, whatever that
\* value; no mapping is returned.
C22_UnclassifiedErrorIsFatal ==
    (pc = "done" /\ cycle_exc \notin {"None", "UnauthorizedError", "APIRateLimited",
                                      "ServiceUnavailable", "ConnectionError"}) =>
        /\ result = "UpdateFailed"
        /\ consecutive_errors = errors_at_start + 1
        /\ returned = <<>>

C22_Witness ==
    /\ pc = "done" /\ cycle_exc = "AuthError" /\ result = "UpdateFailed"
    /\ errors_at_start = 0 /\ consecutive_errors = 1 /\ Len(data) = NumDevices

\* C24 as stated: the sleep after failed attempt number k (k in 1..3) is
\* 2^k seconds.
C24_BackoffIsTwoToTheAttemptNumber ==
    pc = "sleep" => backoff = RETRY_BACKOFF_BASE ^ (attempt + 1)

\* C24 as amended: the sleep after failed attempt number k is 2^(k-1) seconds
\* (attempt is k-1: 1 second after the first attempt, 2 after the second); it
\* follows a recorded ServiceUnavailable, ConnectionError, AuthError or
\* APIRateLimited; there is none after the last attempt; and the loop goes on
\* to its next attempt without a sleep only after the last attempt or after a
\* re-login that succeeded.
C24_BackoffIsTwoToTheAttemptIndex ==
    /\ [](pc = "sleep" =>
            /\ attempt < DEFAULT_RETRY_COUNT - 1
            /\ backoff = RETRY_BACKOFF_BASE ^ attempt
            /\ last_error \in {"ServiceUnavailable", "ConnectionError",
                               "AuthError", "APIRateLimited"})
    /\ [][(pc' = "attempt" /\ attempt' = attempt + 1) =>
            \/ pc = "sleep"
            \/ attempt = DEFAULT_RETRY_COUNT - 1
            \/ relogins' = relogins + 1]_vars

C24_Witness ==
    pc = "sleep" /\ attempt = 1 /\ backoff = 2 /\ last_error = "ServiceUnavailable"

\* C25: a login() that passed the gate and got a response: on success the
\* null-cookie counter is 0 and the flag is set; on status 401 (of the POST
\* or of the verification GET) the counter grows by exactly 1, the flag is
\* clear and login() raises AuthError; on any other status than 200 and 401
\* it raises ConnectionError.
C25_LoginOutcomes ==
    [][/\ (login_status' = 200 /\ login_result' = "ok") =>
            (null_cookie_count' = 0 /\ is_authenticated')
       /\ login_status' = 401 =>
            /\ login_result' = "AuthError"
            /\ ~is_authenticated'
            /\ null_cookie_count' = null_cookie_count + 1
       /\ login_status' \notin {0, 200, 401} =>
            login_result' = "ConnectionError"]_vars

\* C27: a failure of device.refresh() never reaches the cycle's outer
\* handlers and never counts: a cycle that called refresh() ends with no
\* exception caught by the outer try, the counter grows only in a cycle that
\* failed before its first refresh(), and a cycle in which every refresh()
\* failed ends fresh with the counter at 0.
C27_RefreshFailuresNeverCount ==
    pc = "done" =>
        /\ Len(invoked) > 0 => cycle_exc = "None"
        /\ consecutive_errors > errors_at_start => Len(invoked) = 0
        /\ (Len(failed) > 0 /\ \A i \in 1..Len(failed) : failed[i]) =>
                (consecutive_errors = 0 /\ result = "fresh")

\* C28 as stated: _request_json_with_retry never fails with
\* UnauthorizedError, and a request that got a 401/403 (its re-login
\* succeeded, or failed and was recorded) returns or fails with AuthError,
\* APIRateLimited, ConnectionError, ServiceUnavailable or the generic error.
C28_UnauthorizedBecomesListedKind ==
    /\ refresh_exc # "UnauthorizedError"
    /\ (relogins >= 1 \/ last_error \in {"AuthError", "APIRateLimited"}) =>
            refresh_exc \in {"None", "AuthError", "APIRateLimited",
                             "ConnectionError", "ServiceUnavailable",
                             "SomeComfortError"}

\* C28 as amended: UnauthorizedError is never raised to the caller nor
\* recorded as the pending error; a request that got a 401/403 returns or
\* fails with one of the kinds above, or with what a later attempt's
\* transport call fails with: UnexpectedResponse or the unconverted
\* aiohttp.ClientError.
C28_NeverFailsWithUnauthorized ==
    /\ refresh_exc # "UnauthorizedError"
    /\ last_error # "UnauthorizedError"
    /\ (relogins >= 1 \/ last_error \in {"AuthError", "APIRateLimited"}) =>
            refresh_exc \in {"None", "AuthError", "APIRateLimited",
                             "ConnectionError", "ServiceUnavailable",
                             "SomeComfortError", "UnexpectedResponse",
                             "ClientError"}

C28_Witness ==
    /\ pc = "dev_loop" /\ relogins = 2 /\ req_calls = 3
    /\ refresh_exc = "UnexpectedResponse"

\* C30: the null-cookie counter goes down only to 0 and only in a step in
\* which login() succeeds or an API request gets 200 with an expected content
\* type (its refresh() returns); the passage of time leaves it alone; and
\* once it is 3 or more, every further rejected login() arms a cooldown of
\* MIN_LOGIN_TIME from that moment.
C30_NullCountResetOnlyOnSuccess ==
    [][/\ null_cookie_count' < null_cookie_count =>
            /\ null_cookie_count' = 0
            /\ \/ pc = "login_get" /\ login_status' = 200 /\ login_result' = "ok"
               \/ pc = "request" /\ pc' = "dev_loop" /\ refresh_exc' = "None"
                    /\ Len(failed') = Len(failed) + 1
       /\ now' # now => null_cookie_count' = null_cookie_count
       /\ (null_cookie_count >= MAX_LOGIN_ATTEMPTS
             /\ null_cookie_count' > null_cookie_count) =>
            /\ null_cookie_count' = null_cookie_count + 1
            /\ login_result' = "AuthError"
            /\ next_login' = now + MIN_LOGIN_TIME]_vars

C30_Witness ==
    /\ null_cookie_count = MAX_LOGIN_ATTEMPTS + 1
    /\ now >= MIN_LOGIN_TIME
    /\ next_login = now + MIN_LOGIN_TIME
    /\ login_result = "AuthError"

\* C23: what _request_json makes of a transport call, by precedence: status
\* 200 with content type JSON or octet-stream is success; otherwise 401 or
\* 403 is UnauthorizedError, redirected or not; otherwise 500, 502, 503 or a
\* redirect history is ServiceUnavailable; otherwise UnexpectedResponse; an
\* exception of the transport is ConnectionError.
C23_ClassificationPrecedence ==
    resp_in.kind # "none" =>
        req_class =
            IF resp_in.kind = "exception" THEN "ConnectionError"
            ELSE IF resp_in.status = 200
                    /\ resp_in.ctype \in {"application/json",
                                          "application/octet-stream"}
            THEN "ok"
            ELSE IF resp_in.status \in {401, 403} THEN "UnauthorizedError"
            ELSE IF resp_in.status \in {500, 502, 503} \/ resp_in.redirected
            THEN "ServiceUnavailable"
            ELSE "UnexpectedResponse"

\* C29: the step in which _request_json raises UnexpectedResponse ends the
\* _request_json_with_retry call with that error, whatever the attempt: no
\* further transport call, no next attempt, no sleep.
C29_UnexpectedResponseIsNotRetried ==
    [][req_class' = "UnexpectedResponse" =>
            /\ pc = "request" /\ pc' = "dev_loop"
            /\ refresh_exc' = "UnexpectedResponse"
            /\ failed' = Append(failed, TRUE)
            /\ req_calls' = req_calls /\ attempt' = attempt
            /\ backoff' = 0]_vars

C29_Witness ==
    /\ req_class = "UnexpectedResponse" /\ refresh_exc = "UnexpectedResponse"
    /\ attempt = 0 /\ req_calls = 1 /\ pc = "dev_loop"

\* The sleeps a command operation owes after f failed attempts: 2^k seconds
\* after failed attempt k, for k below the last attempt.
OwedSleeps(f) ==
    [k \in 1..(IF f < RETRY_ATTEMPTS - 1 THEN f ELSE RETRY_ATTEMPTS - 1)
        |-> 2 ^ (k - 1)]

\* C26: a command operation of the climate entity makes at most 3 attempts,
\* sleeps 2^k seconds after failed attempt k (k = 0, 1) and not after the
\* last, and requests a coordinator refresh exactly once, only after an
\* attempt in which every submitted setting succeeded.
C26_CommandOperationRetries ==
    /\ op_attempt < RETRY_ATTEMPTS
    /\ op_failed <= RETRY_ATTEMPTS
    /\ op_slept = OwedSleeps(op_failed)
    /\ op_refreshes <= 1
    /\ op_pc = "done" => op_refreshes = 1
    /\ op_refreshes = 1 =>
         op_pc = "done" /\ op_todo = 0 /\ op_failed = op_attempt


\* C31: a login() that fails with APIRateLimited or with ConnectionError
\* leaves the authenticated flag, the null-cookie counter and the time of
\* the next permitted login as they were when it was called.
C31_FailedLoginLeavesSessionAlone ==
    (login_entry # <<>> /\ login_result \in {"APIRateLimited", "ConnectionError"})
        => <<is_authenticated, null_cookie_count, next_login>> = login_entry

\* A login() called with the counter at 2 issued both its calls and failed
\* with ConnectionError.
C31_Witness ==
    /\ login_entry # <<>>
    /\ login_result = "ConnectionError"
    /\ login_calls = 2
    /\ null_cookie_count = 2


\* C32: a cycle that surfaces APIRateLimited increments consecutive_errors
\* and returns the stored snapshot whatever the counter has reached, also
\* beyond the threshold of 5; these cycles count toward the threshold, so
\* the first cycle that fails as a whole with ConnectionError or
\* ServiceUnavailable after 4 or more of them in a row raises UpdateFailed.
C32_RateLimitedCyclesCount ==
    /\ (pc = "done" /\ cycle_exc = "APIRateLimited") =>
            /\ consecutive_errors = errors_at_start + 1
            /\ result = "stale" /\ returned = data
    /\ (pc = "done" /\ rl_run >= 4
            /\ cycle_exc \in {"ConnectionError", "ServiceUnavailable"}) =>
            (result = "UpdateFailed" /\ consecutive_errors >= rl_run + 1)

\* Five rate-limited cycles in a row returned the snapshot, the fifth with
\* the counter at the threshold; the next cycle's login failed with
\* ConnectionError and the cycle was fatal.
C32_Witness ==
    /\ pc = "done" /\ rl_run = 5 /\ cycle_exc = "ConnectionError"
    /\ result = "UpdateFailed" /\ consecutive_errors = 6


\* C33: a command operation of the climate entity never raises a
\* SomeComfortError (APIError included) to its caller: when its third
\* attempt has failed with one, the operation returns normally and has
\* requested no coordinator refresh.
C33_CommandOperationSwallowsClientErrors ==
    /\ op_exc \notin SomeComfortErrors
    /\ (op_failed = RETRY_ATTEMPTS /\ cmd_result \in SomeComfortErrors) =>
            (op_pc = "done" /\ op_exc = "None" /\ op_refreshes = 0)

\* Two attempts of an operation failed and were followed by sleeps of 1 and
\* 2 seconds, the third was rejected by the service (a 200 reply whose body
\* has no success = 1), and the operation returned.
C33_Witness ==
    /\ op_pc = "done" /\ op_failed = RETRY_ATTEMPTS /\ op_slept = <<1, 2>>
    /\ cmd_result = "APIError" /\ cmd_reply = "rejected"
    /\ op_exc = "None" /\ op_refreshes = 0

====
